---- MODULE Spec2Model ----
(***************************************************************************)
(* error-shield: the retry executor withRetry (src/src/index.ts 633-690)   *)
(* and its backoff policy calculateDelay (570-602), as a state machine.    *)
(*                                                                         *)
(* A call of withRetry is an async function: it runs without interruption  *)
(* from one await to the next.  Its suspension points are `await fn()`     *)
(* (line 652) and `await new Promise(setTimeout)` (line 681), so a call is *)
(* advanced by three events: the call itself, the settling of the promise  *)
(* the operation returned, and the firing of the delay timer.  Error       *)
(* objects live in a heap shared by all calls, because the `attempts`      *)
(* property is written onto the error object itself (line 687).            *)
(*                                                                         *)
(* The formatter formatError (450-484) is modelled on error objects built  *)
(* with `new Error` and `new AppError` (385-407), each wrapping the one    *)
(* built before it, so that a chain of causes is what gets formatted.      *)
(***************************************************************************)
EXTENDS Integers, Sequences, FiniteSets, TLC

VARIABLES
    active,     \* the withRetry calls of this run
    options,    \* options[c]: the RetryOptions object passed to call c
    pc,         \* pc[c]: where call c stands
    attempt,    \* attempt[c]: the loop variable `attempt` (line 650)
    errors,     \* errors[c]: the local array `errors` (line 647), object ids
    lastError,  \* lastError[c]: the local `lastError` (line 648), 0 = undefined
    outcome,    \* outcome[c]: the value call c resolved or rejected with
    inFlight,   \* inFlight[c]: promises of the operation not yet settled
    trace,      \* trace[c]: what call c did and observed, in order
    heap,       \* heap[i]: the Error object with id i
    delayCall,  \* the latest call of calculateDelay made on its own
    errorObjs,  \* errorObjs[i]: the i-th error object built for the formatter
    formatCall, \* the latest call of formatError
    handlerCalls, \* handlerCalls[r]: the call of a wrapped route handler for request r
    wrapCalls   \* the calls of AppError.wrap made, in order

vars ==
    <<active, options, pc, attempt, errors, lastError, outcome, inFlight, trace, heap,
      delayCall, errorObjs, formatCall, handlerCalls, wrapCalls>>

\* The state of the retry executor.
retryVars ==
    <<active, options, pc, attempt, errors, lastError, outcome, inFlight, trace, heap>>

Calls == {"A", "B"}

\* The state of the formatter.
formatVars == <<errorObjs, formatCall>>

(* ------------------------------ bounds --------------------------------- *)
\* Error objects the operation may reject with (ids 1..NumErrors).
NumErrors == 2
\* Largest explicit maxRetries option.
MaxRetries == 2
\* Math.random() draws a multiple of 1/RandDen in [0, 1).
RandDen == 8
\* Largest maxRetries option of two concurrent calls.
ConcMaxRetries == 1
\* Largest attempt number calculateDelay is called with on its own.
MaxAttemptNo == 4
\* Most error objects built, hence the longest cause chain formatted.
MaxObjects == 3
\* new Date() reads one of the instants 1..MaxTime.
MaxTime == 2
\* Nested calls of formatError the call stack has room for; more than any
\* chain of distinct error objects is long.
StackLimit == 4
\* Requests a wrapped route handler is serving at the same time.
MaxRequests == 2

(* ------------------------- program constants --------------------------- *)
DefaultMaxRetries == 3
DefaultInitialDelay == 1000
DefaultMaxDelay == 30000
DefaultStatusCode == 500
WrapDefaultStatusCode == 500
FallbackStatusCode == 500

\* An omitted (undefined) numeric option; the numbers passed are >= 0.
Unset == -1

(* ------------------------------ values --------------------------------- *)
\* A JavaScript value: an Error object (by reference), a string, a number
\* or undefined.
ErrVal(i) == [t |-> "error", ref |-> i, s |-> "", n |-> 0]
StrVal(x) == [t |-> "string", ref |-> 0, s |-> x, n |-> 0]
NumVal(k) == [t |-> "number", ref |-> 0, s |-> "", n |-> k]
Undefined == [t |-> "undefined", ref |-> 0, s |-> "", n |-> 0]
Null == [t |-> "null", ref |-> 0, s |-> "", n |-> 0]

\* err instanceof Error
IsError(v) == v.t = "error"

\* A slip for String(err): typeof err.
StringTypeof(v) == v.t

\* String(v) for a value that is not an Error.
String(v) ==
    CASE v.t = "string" -> v.s
      [] v.t = "number" -> ToString(v.n)
      [] OTHER -> "undefined"

\* new Error(message): no `attempts` property yet, and no `cause` (0).
NewError(message) ==
    [message |-> message, hasAttempts |-> FALSE, attempts |-> <<>>, cause |-> 0]

\* The Error object a throwing hook throws.
HookErrorId == NumErrors + 1

\* What the operation may reject with, and what it may resolve with.
Thrown == {ErrVal(i) : i \in 1..NumErrors} \cup {StrVal("string error"), NumVal(42)}
Results == {StrVal("ok"), Undefined}

\* What a retryIf predicate and an onRetry callback may do when called
\* ("none": there is no such hook), and what Math.random() may draw (as a
\* numerator over RandDen: the least and the greatest draw; 0 when jitter is
\* off and it is not called).
RetryIfOutcomes(p) == IF p.retryIf THEN {"true", "false", "throw"} ELSE {"none"}
OnRetryOutcomes(p) == IF p.onRetry THEN {"return", "throw"} ELSE {"none"}
RandDraws(p) == IF p.jitter THEN {0, RandDen - 1} ELSE {0}

Event(ev, k, val) == [ev |-> ev, k |-> k, val |-> val]

(* --------------------------- calculateDelay ---------------------------- *)
RECURSIVE Pow2(_)
Pow2(e) == IF e <= 0 THEN 1 ELSE 2 * Pow2(e - 1)

\* A slip for Math.min(delay, maxDelay), line 593: the cap is not applied.
MinFirst(a, b) == a

Min(a, b) == IF a <= b THEN a ELSE b

\* A slip for the default branch of lines 588-589: no delay at all.
BaseDelayDefaultZero(att, backoff, initialDelay) ==
    CASE backoff = "exponential" -> initialDelay * Pow2(att - 1)
      [] backoff = "linear" -> initialDelay * att
      [] backoff = "fixed" -> initialDelay
      [] OTHER -> 0

\* A slip for line 583: initialDelay / attempt.
BaseDelayLinearDivides(att, backoff, initialDelay) ==
    CASE backoff = "exponential" -> initialDelay * Pow2(att - 1)
      [] backoff = "linear" -> initialDelay \div att
      [] backoff = "fixed" -> initialDelay
      [] OTHER -> initialDelay

\* The switch of lines 578-590.
BaseDelay(att, backoff, initialDelay) ==
    CASE backoff = "exponential" -> initialDelay * Pow2(att - 1)
      [] backoff = "linear" -> initialDelay * att
      [] backoff = "fixed" -> initialDelay
      [] OTHER -> initialDelay

\* A slip for line 597: jitterAmount = delay * 0.5.
JitteredWide(delay, r) ==
    (2 * delay * (2 * RandDen + 4 * r) + 4 * RandDen) \div (8 * RandDen)

\* Math.round(delay - delay*0.25 + (r/RandDen) * delay*0.25 * 2), delay >= 0:
\* the value is delay*(3*RandDen + 2*r) / (4*RandDen), rounded half up.
Jittered(delay, r) ==
    (2 * delay * (3 * RandDen + 2 * r) + 4 * RandDen) \div (8 * RandDen)

\* A slip for lines 593-599: the jitter is taken of the delay before the cap.
calculateDelayJitterUncapped(att, p, r) ==
    LET base == BaseDelay(att, p.backoff, p.initialDelay)
    IN  IF p.jitter THEN Jittered(base, r) ELSE Min(base, p.maxDelay)

calculateDelay(att, p, r) ==
    LET capped == Min(BaseDelay(att, p.backoff, p.initialDelay), p.maxDelay)
    IN  IF p.jitter THEN Jittered(capped, r) ELSE capped

(* ------------------------------ options -------------------------------- *)
\* The destructuring with defaults of lines 637-645.
WithDefaults(o) ==
    [maxRetries   |-> IF o.maxRetries = Unset THEN DefaultMaxRetries ELSE o.maxRetries,
     backoff      |-> IF o.backoff = "unset" THEN "exponential" ELSE o.backoff,
     initialDelay |-> IF o.initialDelay = Unset THEN DefaultInitialDelay ELSE o.initialDelay,
     maxDelay     |-> IF o.maxDelay = Unset THEN DefaultMaxDelay ELSE o.maxDelay,
     jitter       |-> IF o.jitter = "unset" THEN TRUE ELSE o.jitter = "on",
     retryIf      |-> o.retryIf,
     onRetry      |-> o.onRetry]

Policy(c) == WithDefaults(options[c])

\* withRetry(fn): no options object at all.
NoOptions ==
    [maxRetries |-> Unset, backoff |-> "unset", initialDelay |-> Unset,
     maxDelay |-> Unset, jitter |-> "unset", retryIf |-> FALSE, onRetry |-> FALSE]

\* The options a single call is checked with.
OptionsSet ==
    {NoOptions} \cup
    [maxRetries : 0..MaxRetries, backoff : {"linear", "bogus"}, initialDelay : {10},
     maxDelay : {25}, jitter : {"on", "off"}, retryIf : BOOLEAN, onRetry : BOOLEAN]

\* The options two concurrent calls are checked with.
ConcOptionsSet ==
    [maxRetries : 0..ConcMaxRetries, backoff : {"fixed"}, initialDelay : {10},
     maxDelay : {Unset}, jitter : {"off"}, retryIf : {FALSE}, onRetry : {FALSE}]

\* The policies calculateDelay is called with on its own: every strategy and
\* an unrecognized one, delays below and above the cap.
DelayPolicies ==
    [backoff : {"exponential", "linear", "fixed", "bogus"},
     initialDelay : {7, 10, 50000}, maxDelay : {25, 100}, jitter : BOOLEAN]

\* Math.random() for such a call: any multiple of 1/RandDen in [0, 1).
DelayDraws(jitter) == IF jitter THEN 0..(RandDen - 1) ELSE {0}

(* ------------------------------- Init ---------------------------------- *)
\* calculateDelay has not been called: attempt 0.
NoDelayCall(p) ==
    [attempt |-> 0, backoff |-> p.backoff, initialDelay |-> p.initialDelay,
     maxDelay |-> p.maxDelay, jitter |-> p.jitter, random |-> 0, delay |-> 0]

\* A wrapped route handler not called yet.
\* args: what the wrapper was called with; fnArgs: what it called fn with;
\* inner: the state of what fn returned ("threw": fn threw before returning);
\* outer: the state of the promise the wrapper returned ("none": it returned
\* nothing); innerValue, outerValue: what they settled with; nextCalls: the
\* values next was called with.
NoHandlerCall ==
    [state |-> "idle", args |-> <<>>, fnArgs |-> <<>>,
     inner |-> "none", innerValue |-> Undefined,
     outer |-> "none", outerValue |-> Undefined, nextCalls |-> <<>>]

Requests == 1..MaxRequests

InitHeap ==
    [i \in 1..(NumErrors + 1) |->
        NewError(IF i = HookErrorId THEN "hook failed" ELSE "fail " \o ToString(i))]

InitCommon ==
    /\ pc = [c \in Calls |-> "idle"]
    /\ attempt = [c \in Calls |-> 0]
    /\ errors = [c \in Calls |-> <<>>]
    /\ lastError = [c \in Calls |-> 0]
    /\ outcome = [c \in Calls |-> Undefined]
    /\ inFlight = [c \in Calls |-> 0]
    /\ trace = [c \in Calls |-> <<>>]
    /\ heap = InitHeap
    /\ handlerCalls = [r \in Requests |-> NoHandlerCall]
    /\ wrapCalls = <<>>

\* No error object built for the formatter, formatError not called.
\* entry: the function called; errorDetails: what its formatError returned;
\* logged: the calls of the logger; completion: how the function ended;
\* result: what it returned; and for the middleware, format: options.format,
\* response: the calls made on res, nextCalls: the calls of next; again: what
\* later calls of formatError with the same arguments returned; order: the
\* calls the middleware made of the logger and on res, by name, in order.
NoFormatCall ==
    [called |-> FALSE, entry |-> "none", error |-> 0, options |-> <<>>,
     logger |-> FALSE, errorDetails |-> <<>>, logged |-> <<>>,
     completion |-> "none", result |-> <<>>,
     format |-> "unset", response |-> <<>>, nextCalls |-> <<>>,
     again |-> <<>>, order |-> <<>>]

NoFormat ==
    /\ errorObjs = <<>>
    /\ formatCall = NoFormatCall

InitRetry ==
    /\ delayCall = NoDelayCall(WithDefaults(NoOptions))
    /\ NoFormat

\* One call of withRetry.
Init ==
    /\ active = {"A"}
    /\ \E o \in OptionsSet : options = [c \in Calls |-> IF c = "A" THEN o ELSE NoOptions]
    /\ InitCommon
    /\ InitRetry

\* Two calls of withRetry, interleaved at their awaits.
InitConc ==
    /\ active = Calls
    /\ options \in [Calls -> ConcOptionsSet]
    /\ InitCommon
    /\ InitRetry

\* calculateDelay on its own: no call of withRetry, any policy.
InitDelay ==
    /\ active = {}
    /\ options = [c \in Calls |-> NoOptions]
    /\ InitCommon
    /\ \E p \in DelayPolicies : delayCall = NoDelayCall(p)
    /\ NoFormat

\* The formatter on its own: no call of withRetry, no error object yet.
InitFormat ==
    /\ active = {}
    /\ options = [c \in Calls |-> NoOptions]
    /\ InitCommon
    /\ InitRetry

(* ------------------------ pieces of withRetry -------------------------- *)
\* A slip for lines 652 and 687: the history is attached to the last failure
\* before the call returns, on success as well.
StepAttachingOnSuccess(c, newPc, att, errs, last, out, fl, tr, hp) ==
    /\ pc' = [pc EXCEPT ![c] = newPc]
    /\ attempt' = [attempt EXCEPT ![c] = att]
    /\ errors' = [errors EXCEPT ![c] = errs]
    /\ lastError' = [lastError EXCEPT ![c] = last]
    /\ outcome' = [outcome EXCEPT ![c] = out]
    /\ inFlight' = [inFlight EXCEPT ![c] = fl]
    /\ trace' = [trace EXCEPT ![c] = tr]
    /\ heap' = IF newPc = "resolved" /\ last # 0
               THEN [hp EXCEPT ![last] = [@ EXCEPT !.hasAttempts = TRUE, !.attempts = errs]]
               ELSE hp
    /\ UNCHANGED <<active, options, delayCall, errorObjs, formatCall, handlerCalls, wrapCalls>>

\* The new state of call c; the options and the set of calls never change.
Step(c, newPc, att, errs, last, out, fl, tr, hp) ==
    /\ pc' = [pc EXCEPT ![c] = newPc]
    /\ attempt' = [attempt EXCEPT ![c] = att]
    /\ errors' = [errors EXCEPT ![c] = errs]
    /\ lastError' = [lastError EXCEPT ![c] = last]
    /\ outcome' = [outcome EXCEPT ![c] = out]
    /\ inFlight' = [inFlight EXCEPT ![c] = fl]
    /\ trace' = [trace EXCEPT ![c] = tr]
    /\ heap' = hp
    /\ UNCHANGED <<active, options, delayCall, errorObjs, formatCall, handlerCalls, wrapCalls>>

\* A slip for line 650: attempt < maxRetries.
LoopConditionStrict(att, maxRetries) == att < maxRetries

\* for (...; attempt <= maxRetries; ...), line 650.
LoopCondition(att, maxRetries) == att <= maxRetries

\* A slip for the await of line 652: the loop goes on while fn() is pending.
MayInvokeUnawaited(c, where) == pc[c] \in {where, "awaitFn"}

\* The call of fn() of line 652 may be made only by a call that is not
\* suspended on an earlier fn() of its own.
MayInvoke(c, where) == pc[c] = where

\* A slip for line 652: the value of fn() is dropped.
ReturnValueDropped(v) == Undefined

\* `return await fn()`, line 652: what withRetry resolves with.
ReturnValue(v) == v

\* A slip for line 654: new Error() without the string form of the value.
CoerceHeapNoMessage(hp, err) == IF IsError(err) THEN hp ELSE Append(hp, NewError(""))

\* const error = err instanceof Error ? err : new Error(String(err)), line 654:
\* the heap after the coercion, and the id of `error` in it.
CoerceHeap(hp, err) == IF IsError(err) THEN hp ELSE Append(hp, NewError(String(err)))
CoerceRef(hp, err) == IF IsError(err) THEN err.ref ELSE Len(hp) + 1

\* A slip for line 656: errors.unshift(error).
PushErrorFront(errs, e) == <<e>> \o errs

\* errors.push(error), line 656.
PushError(errs, e) == Append(errs, e)

\* Slips for line 659: an off-by-one bound, and a test that never holds.
IsLastAttemptEarly(att, maxRetries) == att + 1 >= maxRetries
IsLastAttemptNever(att, maxRetries) == FALSE

\* A slip for line 659: the test holds one attempt too late.
IsLastAttemptLate(att, maxRetries) == att = maxRetries + 1

\* if (attempt === maxRetries) break, line 659.
IsLastAttempt(att, maxRetries) == att = maxRetries

\* A slip for line 664: the result of the predicate is ignored.
PredicateIgnored(hasRetryIf, res) == FALSE

\* if (retryIf && !retryIf(error)) break, line 664: res is what the predicate
\* returned.
PredicateStops(hasRetryIf, res) == hasRetryIf /\ res = "false"

\* Slips for lines 670 and 674: the 0-based loop variable is handed over,
\* and the number of the attempt to come.
RetryNumberZeroBased(att) == att
RetryNumberNext(att) == att + 2

\* onRetry(error, attempt + 1), line 670, and calculateDelay(attempt + 1, ...),
\* line 674: the attempt number handed over.
RetryNumber(att) == att + 1

\* (finalError as any).attempts = errors, line 687.
AttachAttempts(hp, e, errs) ==
    [hp EXCEPT ![e] = [@ EXCEPT !.hasAttempts = TRUE, !.attempts = errs]]

\* The value thrown by line 689.
FinalError(last) == ErrVal(last)

\* Lines 685-689, after the loop: attach the history to lastError, throw it.
ThrowFinal(c, att, errs, last, fl, tr, hp) ==
    Step(c, "rejected", att, errs, last, FinalError(last), fl,
         tr \o <<Event("reject", Len(errs), FinalError(last))>>,
         AttachAttempts(hp, last, errs))

\* A slip for a throwing hook: the history is attached to what it threw.
PropagateAttaching(c, att, errs, last, fl, tr, hp) ==
    Step(c, "rejected", att, errs, last, ErrVal(HookErrorId), fl,
         tr \o <<Event("reject", 0, ErrVal(HookErrorId))>>,
         AttachAttempts(hp, HookErrorId, errs))

\* A slip for a throwing hook: its exception is swallowed and the failure of
\* the attempt is thrown in its place, with the history.
PropagateLastError(c, att, errs, last, fl, tr, hp) ==
    Step(c, "rejected", att, errs, last, FinalError(last), fl,
         tr \o <<Event("reject", Len(errs), FinalError(last))>>,
         AttachAttempts(hp, last, errs))

\* An exception of a hook leaves withRetry through no handler of its own.
Propagate(c, att, errs, last, fl, tr, hp) ==
    Step(c, "rejected", att, errs, last, ErrVal(HookErrorId), fl,
         tr \o <<Event("reject", 0, ErrVal(HookErrorId))>>, hp)

\* Entering the try block: fn() is called and awaited.
Invoke(c, att, errs, last, tr, hp) ==
    Step(c, "awaitFn", att, errs, last, Undefined, inFlight[c] + 1,
         tr \o <<Event("invoke", att + 1, Undefined)>>, hp)

\* retryIf(error), line 664, returned or threw (res).
PredicateEvents(p, res, e) ==
    IF p.retryIf THEN <<Event("retryIf:" \o res, 0, ErrVal(e))>> ELSE <<>>

\* onRetry(error, attempt + 1), line 670, returned or threw (hk).
CallbackEvents(p, hk, att, e) ==
    IF p.onRetry THEN <<Event("onRetry:" \o hk, RetryNumber(att), ErrVal(e))>> ELSE <<>>

\* setTimeout(resolve, delay), line 681.
TimerEvents(delay) == <<Event("sleep", delay, Undefined)>>

\* A slip for lines 663-671: the callback is called before the predicate.
RetryEventsCallbackFirst(pred, callback, timer) == callback \o pred \o timer

\* What the catch block does, in order, when it goes on to retry: the
\* predicate (lines 664-666), the callback (669-671), the timer (674-681).
RetryEvents(pred, callback, timer) == pred \o callback \o timer

(* ------------------------------ actions -------------------------------- *)
\* withRetry(fn, options) is called: lines 637-652 up to the first await.
Call(c) ==
    /\ c \in active
    /\ pc[c] = "idle"
    /\ IF LoopCondition(0, Policy(c).maxRetries)
       THEN Invoke(c, 0, <<>>, 0, <<>>, heap)
       ELSE ThrowFinal(c, 0, <<>>, 0, inFlight[c], <<>>, heap)

\* The promise of fn() is fulfilled with v: line 652 returns.
FnResolves(c, v) ==
    /\ pc[c] = "awaitFn"
    /\ Step(c, "resolved", attempt[c], errors[c], lastError[c], ReturnValue(v),
            inFlight[c] - 1,
            trace[c] \o <<Event("settleOk", 0, v), Event("resolve", 0, ReturnValue(v))>>,
            heap)

\* The promise of fn() is rejected with err (or fn threw err): the catch
\* block, lines 653-682, up to the break, the throw or the next await.
\* res, hk and r are what retryIf returns, what onRetry does and what
\* Math.random() draws, if they are called.
FnRejects(c, err, res, hk, r) ==
    /\ pc[c] = "awaitFn"
    /\ LET p == Policy(c)
           att == attempt[c]
           hp == CoerceHeap(heap, err)
           e == CoerceRef(heap, err)
           errs == PushError(errors[c], e)
           tr0 == trace[c] \o <<Event("settleErr", 0, err)>>
           delay == calculateDelay(RetryNumber(att), p, r)
           fl == inFlight[c] - 1
           pred == PredicateEvents(p, res, e)
           callback == CallbackEvents(p, hk, att, e)
       IN  IF IsLastAttempt(att, p.maxRetries)
           THEN ThrowFinal(c, att, errs, e, fl, tr0, hp)
           ELSE IF p.retryIf /\ res = "throw"
           THEN Propagate(c, att, errs, e, fl, tr0 \o pred, hp)
           ELSE IF PredicateStops(p.retryIf, res)
           THEN ThrowFinal(c, att, errs, e, fl, tr0 \o pred, hp)
           ELSE IF p.onRetry /\ hk = "throw"
           THEN Propagate(c, att, errs, e, fl, tr0 \o pred \o callback, hp)
           ELSE Step(c, "sleeping", att, errs, e, Undefined, fl,
                     tr0 \o RetryEvents(pred, callback, TimerEvents(delay)), hp)

\* The timer of line 681 fires: attempt++ and the next turn of the loop.
TimerFires(c) ==
    /\ MayInvoke(c, "sleeping")
    /\ LET att == attempt[c] + 1
           tr == trace[c] \o <<Event("wake", 0, Undefined)>>
       IN  IF LoopCondition(att, Policy(c).maxRetries)
           THEN Invoke(c, att, errors[c], lastError[c], tr, heap)
           ELSE ThrowFinal(c, att, errors[c], lastError[c], inFlight[c], tr, heap)

\* The operation settles, in either way.
FnFulfilled(c) == \E v \in Results : FnResolves(c, v)

FnRejected(c) ==
    \E err \in Thrown, res \in RetryIfOutcomes(Policy(c)),
       hk \in OnRetryOutcomes(Policy(c)), r \in RandDraws(Policy(c)) :
        FnRejects(c, err, res, hk, r)

Next ==
    \E c \in Calls :
        \/ Call(c)
        \/ FnFulfilled(c)
        \/ FnRejected(c)
        \/ TimerFires(c)

Spec == Init /\ [][Next]_vars

SpecConc == InitConc /\ [][Next]_vars

\* calculateDelay(attempt, options) is called for the next attempt number,
\* as line 674 does from one retry to the next; r is what Math.random() draws.
CallCalculateDelay ==
    /\ delayCall.attempt < MaxAttemptNo
    /\ \E r \in DelayDraws(delayCall.jitter) :
           delayCall' = [delayCall EXCEPT
                           !.attempt = @ + 1,
                           !.random = r,
                           !.delay = calculateDelay(delayCall.attempt + 1, delayCall, r)]
    /\ UNCHANGED <<retryVars, formatVars, handlerCalls, wrapCalls>>

NextDelay == CallCalculateDelay

SpecDelay == InitDelay /\ [][NextDelay]_vars

\* The environment of a call that is left to run: the call is made, every
\* promise of the operation settles, every timer fires.
Fairness ==
    \A c \in Calls :
        /\ WF_vars(Call(c))
        /\ WF_vars(FnFulfilled(c) \/ FnRejected(c))
        /\ WF_vars(TimerFires(c))

SpecFair == Init /\ [][Next]_vars /\ Fairness

(* ----------------------- error objects, AppError ----------------------- *)
\* The keys a context object may have: two of the caller's, and the three
\* the middleware adds (lines 535-537); a context is modelled by the value of
\* each key, 0 for a key it does not have.
Keys == {"a", "b", "method", "path", "ip"}
EmptyObject == [k \in Keys |-> 0]

\* The object { a, b }, a key given as 0 being left out.
ObjectOf(a, b) == [k \in Keys |-> IF k = "a" THEN a ELSE IF k = "b" THEN b ELSE 0]

\* An optional context: undefined, or an object.
NoContext == [defined |-> FALSE, map |-> EmptyObject]
SomeContext(m) == [defined |-> TRUE, map |-> m]

\* if (v) ...: the truthiness of a value.
Truthy(v) ==
    CASE v.t = "error" -> TRUE
      [] v.t = "string" -> v.s # ""
      [] v.t = "number" -> v.n # 0
      [] OTHER -> FALSE

\* new Error(message, { cause }): a plain Error.  Its shape tells whether
\* its `stack` property is a non-empty string, and what `context` property
\* it was given afterwards, if any.  It has no isOperational property.
PlainError(message, shape, cause) ==
    [kind |-> "Error", message |-> message, statusCode |-> Undefined,
     code |-> Undefined, context |-> shape.context, hasStack |-> shape.hasStack,
     cause |-> cause, isOperational |-> "undefined"]

PlainErrorShapes ==
    {[hasStack |-> TRUE, context |-> NoContext],
     [hasStack |-> FALSE, context |-> NoContext],
     [hasStack |-> TRUE, context |-> SomeContext(ObjectOf(1, 0))]}

\* new AppError(message, statusCode, code, context, cause), lines 391-407.
AppError(message, statusCode, code, context, cause) ==
    [kind |-> "AppError", message |-> message,
     statusCode |-> IF statusCode = Undefined THEN NumVal(DefaultStatusCode) ELSE statusCode,
     code |-> code, context |-> context, hasStack |-> TRUE,
     cause |-> IF Truthy(cause) THEN cause ELSE Undefined,
     isOperational |-> "true"]

\* A slip for line 438: the original error is not passed on as the cause.
wrapWithoutCause(originalError, message, statusCode, code, context) ==
    AppError(message,
             IF statusCode = Undefined THEN NumVal(WrapDefaultStatusCode) ELSE statusCode,
             code, context, Undefined)

\* AppError.wrap(originalError, message, statusCode, code, context), lines
\* 431-439.
wrap(originalError, message, statusCode, code, context) ==
    AppError(message,
             IF statusCode = Undefined THEN NumVal(WrapDefaultStatusCode) ELSE statusCode,
             code, context, originalError)

\* A slip for lines 460 and 468: every error is taken for an AppError.
IsAppErrorAlways(error) == TRUE

\* error instanceof AppError
IsAppError(error) == error.kind = "AppError"

\* The arguments AppError is constructed with, the cause apart.
AppErrorArgs ==
    {[statusCode |-> Undefined, code |-> Undefined, context |-> NoContext],
     [statusCode |-> NumVal(404), code |-> StrVal("NOT_FOUND"),
      context |-> SomeContext(ObjectOf(1, 0))],
     [statusCode |-> NumVal(0), code |-> StrVal("ZERO"),
      context |-> SomeContext(EmptyObject)],
     [statusCode |-> Null, code |-> Undefined,
      context |-> SomeContext(ObjectOf(1, 1))]}

\* What a new error object is given as its cause: the error built before it,
\* or for the first one nothing, a falsy value or a string.
NewCauses ==
    IF errorObjs = <<>>
    THEN {Undefined, StrVal(""), StrVal("root cause")}
    ELSE {ErrVal(Len(errorObjs))}

NewMessage == "error " \o ToString(Len(errorObjs) + 1)

(* ---------------------------- formatError ------------------------------ *)
\* The options formatError is called with.
FormatOptionsSet ==
    [includeStack : {"unset", "on"}, includeTimestamp : {"unset", "on", "off"},
     context : {NoContext, SomeContext(EmptyObject),
                SomeContext(ObjectOf(2, 0)), SomeContext(ObjectOf(0, 2))}]

\* The destructuring with defaults of lines 454-458.
FormatDefaults(o) ==
    [includeStack |-> o.includeStack = "on",
     includeTimestamp |-> o.includeTimestamp # "off",
     optionsContext |-> IF o.context.defined THEN o.context.map ELSE EmptyObject]

\* A slip for line 461: { ...optionsContext, ...error.context }.
SpreadErrorLast(errorContext, optionsContext) ==
    [k \in Keys |-> IF errorContext.defined /\ errorContext.map[k] # 0
                    THEN errorContext.map[k] ELSE optionsContext[k]]

\* { ...error.context, ...optionsContext }, line 461: the keys of an
\* undefined context are none.
Spread(errorContext, optionsContext) ==
    [k \in Keys |-> IF optionsContext[k] # 0 THEN optionsContext[k]
                    ELSE IF errorContext.defined THEN errorContext.map[k] ELSE 0]

\* A slip for lines 460-462: the test of the class is left out.
mergedContextOfAny(error, optionsContext) == Spread(error.context, optionsContext)

\* Lines 460-462.
mergedContext(error, optionsContext) ==
    IF IsAppError(error) THEN Spread(error.context, optionsContext) ELSE optionsContext

\* Object.keys(mergedContext).length > 0, line 472.
HasKeys(m) == \E k \in Keys : m[k] # 0

\* A slip for line 476: no cause is ever followed.
CauseIsErrorNever(error) == FALSE

\* A slip for line 476: only the cause of an AppError is followed.
CauseIsErrorOfAppError(error) == IsAppError(error) /\ IsError(error.cause)

\* error.cause && error.cause instanceof Error, line 476.
CauseIsError(error) == Truthy(error.cause) /\ IsError(error.cause)

\* A slip for lines 477-480: the cause is formatted with the caller's
\* includeTimestamp.
CauseOptionsInherited(opt) ==
    [includeStack |-> IF opt.includeStack THEN "on" ELSE "off",
     includeTimestamp |-> IF opt.includeTimestamp THEN "on" ELSE "off",
     context |-> NoContext]

\* A slip for lines 477-480: includeStack is not handed on.
CauseOptionsNoStack(opt) ==
    [includeStack |-> "off", includeTimestamp |-> "off", context |-> NoContext]

\* A slip for lines 477-480: the context of the options is handed on.
CauseOptionsWithContext(opt) ==
    [includeStack |-> IF opt.includeStack THEN "on" ELSE "off",
     includeTimestamp |-> "off",
     context |-> SomeContext(opt.optionsContext)]

\* A slip for lines 477-480: includeTimestamp is left out, so that its
\* default applies to the cause.
CauseOptionsDefaultTimestamp(opt) ==
    [includeStack |-> IF opt.includeStack THEN "on" ELSE "off",
     includeTimestamp |-> "unset",
     context |-> NoContext]

\* The options object of the recursive call, lines 477-480.
CauseOptions(opt) ==
    [includeStack |-> IF opt.includeStack THEN "on" ELSE "off",
     includeTimestamp |-> "off",
     context |-> NoContext]

\* The object literal of lines 464-473, without `cause`: a field that is not
\* set has its flag FALSE.
errorDetails(error, opt, now) ==
    LET merged == mergedContext(error, opt.optionsContext)
    IN  [message |-> error.message,
         hasTimestamp |-> opt.includeTimestamp,
         timestamp |-> IF opt.includeTimestamp THEN now ELSE 0,
         hasStack |-> opt.includeStack /\ error.hasStack,
         hasCode |-> IsAppError(error),
         code |-> IF IsAppError(error) THEN error.code ELSE Undefined,
         statusCode |-> IF IsAppError(error) THEN error.statusCode ELSE Undefined,
         hasContext |-> HasKeys(merged),
         context |-> IF HasKeys(merged) THEN merged ELSE EmptyObject]

\* formatError(error, options), lines 450-484, error being object id; now is
\* what new Date() reads.  The result is the snapshot followed by its
\* `cause`, the cause of that, and so on: element i + 1 is the `cause` field
\* of element i, and the last element has none.
RECURSIVE formatError(_, _, _)
formatError(id, o, now) ==
    LET error == errorObjs[id]
        opt == FormatDefaults(o)
    IN  <<errorDetails(error, opt, now)>>
            \o (IF CauseIsError(error)
                THEN formatError(error.cause.ref, CauseOptions(opt), now)
                ELSE <<>>)

\* Whether formatError(id, ...), entered as the depth-th nested call, runs
\* out of call stack: the recursion of line 477 has no guard of its own.
RECURSIVE Overflows(_, _)
Overflows(id, depth) ==
    IF depth > StackLimit THEN TRUE
    ELSE IF CauseIsError(errorObjs[id])
         THEN Overflows(errorObjs[id].cause.ref, depth + 1)
         ELSE FALSE

\* new Error(...) is built.
ConstructError ==
    /\ ~formatCall.called
    /\ Len(errorObjs) < MaxObjects
    /\ \E shape \in PlainErrorShapes, cause \in NewCauses \ {StrVal("")} :
           errorObjs' = Append(errorObjs, PlainError(NewMessage, shape, cause))
    /\ UNCHANGED <<retryVars, delayCall, formatCall, handlerCalls, wrapCalls>>

\* new AppError(...) is built.
ConstructAppError ==
    /\ ~formatCall.called
    /\ Len(errorObjs) < MaxObjects
    /\ \E args \in AppErrorArgs, cause \in NewCauses :
           errorObjs' = Append(errorObjs,
                               AppError(NewMessage, args.statusCode, args.code,
                                        args.context, cause))
    /\ UNCHANGED <<retryVars, delayCall, formatCall, handlerCalls, wrapCalls>>

\* AppError.wrap(...) is called on one of the errors built so far, with a
\* message of its own, and the call is recorded with what it returned.
WrapError ==
    /\ ~formatCall.called
    /\ errorObjs # <<>>
    /\ Len(errorObjs) < MaxObjects
    /\ \E original \in 1..Len(errorObjs), args \in AppErrorArgs :
           /\ errorObjs' = Append(errorObjs,
                                  wrap(ErrVal(original), NewMessage, args.statusCode,
                                       args.code, args.context))
           /\ wrapCalls' = Append(wrapCalls,
                                  [originalError |-> ErrVal(original),
                                   message |-> NewMessage,
                                   statusCode |-> args.statusCode,
                                   code |-> args.code,
                                   context |-> args.context,
                                   returned |-> Len(errorObjs) + 1])
    /\ UNCHANGED <<retryVars, delayCall, formatCall, handlerCalls>>

\* root.cause = top: the `cause` of the error built first is assigned the
\* error built last, which closes the chain into a cycle.
AssignCause ==
    /\ ~formatCall.called
    /\ errorObjs # <<>>
    /\ ~IsError(errorObjs[1].cause)
    /\ errorObjs' = [errorObjs EXCEPT ![1].cause = ErrVal(Len(errorObjs))]
    /\ UNCHANGED <<retryVars, delayCall, formatCall, handlerCalls, wrapCalls>>

\* formatError is called, once, on the error built last: it returns the
\* snapshot, or the engine throws a RangeError when the call stack is used up.
CallFormatError ==
    /\ ~formatCall.called
    /\ errorObjs # <<>>
    /\ \E o \in FormatOptionsSet, now \in 1..MaxTime :
           formatCall' =
               IF Overflows(Len(errorObjs), 1)
               THEN [NoFormatCall EXCEPT
                       !.called = TRUE, !.entry = "formatError",
                       !.error = Len(errorObjs), !.options = o,
                       !.completion = "RangeError"]
               ELSE [NoFormatCall EXCEPT
                       !.called = TRUE, !.entry = "formatError",
                       !.error = Len(errorObjs), !.options = o,
                       !.errorDetails = formatError(Len(errorObjs), o, now),
                       !.completion = "return",
                       !.result = formatError(Len(errorObjs), o, now)]
    /\ UNCHANGED <<retryVars, delayCall, errorObjs, handlerCalls, wrapCalls>>

(* ---------------------------- handleError ------------------------------ *)
\* The options handleError and the middleware are called with, the logger
\* and the format apart.
HandleOptionsSet ==
    [includeStack : {"unset"}, includeTimestamp : {"unset", "off"},
     context : {NoContext, SomeContext(ObjectOf(2, 0))}]

\* What a logger does when it is called ("none": no logger is supplied).
LoggerOutcomes(logger) == IF logger THEN {"return", "throw"} ELSE {"none"}

\* One call of the logger: its argument, and what it did.
LoggerCall(snapshot, lg) == [arg |-> snapshot, did |-> lg]

\* A slip for lines 495-497: the logger is called a second time.
LoggedTwice(logger, snapshot, lg) ==
    IF logger THEN <<LoggerCall(snapshot, lg), LoggerCall(snapshot, lg)>> ELSE <<>>

\* if (options.logger) options.logger(errorDetails), lines 495-497: the
\* calls of the logger.
Logged(logger, snapshot, lg) == IF logger THEN <<LoggerCall(snapshot, lg)>> ELSE <<>>

\* A slip for lines 495-499: an exception of the logger is swallowed.
HandleCompletionSwallowed(lg) == "return"

\* How handleError ends once formatError has returned: the logger's
\* exception is not caught (lines 495-497), else line 499 returns.
HandleCompletion(lg) == IF lg = "throw" THEN "LoggerError" ELSE "return"

\* handleError(error, options), lines 489-500, as the record of the call:
\* id is the error, o the options, logger whether options.logger is
\* supplied, lg what the logger does, now what new Date() reads.
handleError(id, o, logger, lg, now) ==
    IF Overflows(id, 1)
    THEN [NoFormatCall EXCEPT
            !.called = TRUE, !.entry = "handleError", !.error = id, !.options = o,
            !.logger = logger, !.completion = "RangeError"]
    ELSE LET snapshot == formatError(id, o, now)
         IN  [NoFormatCall EXCEPT
                !.called = TRUE, !.entry = "handleError", !.error = id, !.options = o,
                !.logger = logger,
                !.errorDetails = snapshot,
                !.logged = Logged(logger, snapshot, lg),
                !.completion = HandleCompletion(lg),
                !.result = IF HandleCompletion(lg) = "return" THEN snapshot ELSE <<>>]

\* handleError is called, once, on the error built last.
CallHandleError ==
    /\ ~formatCall.called
    /\ errorObjs # <<>>
    /\ \E o \in HandleOptionsSet, logger \in BOOLEAN, now \in 1..MaxTime :
           \E lg \in LoggerOutcomes(logger) :
               formatCall' = handleError(Len(errorObjs), o, logger, lg, now)
    /\ UNCHANGED <<retryVars, delayCall, errorObjs, handlerCalls, wrapCalls>>

NextHandle ==
    \/ ConstructError
    \/ ConstructAppError
    \/ CallHandleError

SpecHandle == InitFormat /\ [][NextHandle]_vars

(* ------------------------- expressErrorHandler ------------------------- *)
\* The value of req.method, req.path and req.ip in a context.
FromRequest == 3

\* { ...options.context, method: req.method, path: req.path, ip: req.ip },
\* lines 533-538.
RequestContext(o) ==
    SomeContext([k \in Keys |->
                    IF k \in {"method", "path", "ip"} THEN FromRequest
                    ELSE IF o.context.defined THEN o.context.map[k] ELSE 0])

\* A slip for line 542: err.statusCode is used as it is.
StatusOfRaw(error) == IF IsAppError(error) THEN error.statusCode.n ELSE FallbackStatusCode

\* err instanceof AppError ? err.statusCode || 500 : 500, lines 541-542.
StatusOf(error) ==
    IF IsAppError(error)
    THEN IF Truthy(error.statusCode) THEN error.statusCode.n ELSE FallbackStatusCode
    ELSE FallbackStatusCode

\* The calls made on res, lines 544-548.
Respond(format, statusCode, snapshot) ==
    IF format = "string"
    THEN <<[method |-> "status", arg |-> statusCode],
           [method |-> "send", arg |-> snapshot[1].message]>>
    ELSE <<[method |-> "status", arg |-> statusCode],
           [method |-> "json", arg |-> snapshot]>>

\* A slip for lines 533-548: the response is sent before the error is
\* handed to handleError and its logger.
CallOrderResponseFirst(logged, response) ==
    [i \in 1..Len(response) |-> response[i].method]
        \o [i \in 1..Len(logged) |-> "logger"]

\* The names of the calls the middleware makes, in order: those handleError
\* makes of the logger (line 533), then those on res (lines 544-548).
CallOrder(logged, response) ==
    [i \in 1..Len(logged) |-> "logger"]
        \o [i \in 1..Len(response) |-> response[i].method]

\* The middleware expressErrorHandler(options) returns, called with
\* (err, req, res, next), lines 525-549, as the record of the call: an
\* exception of handleError leaves it before anything is sent.
Middleware(id, o, format, logger, lg, now) ==
    LET handled == handleError(id, [o EXCEPT !.context = RequestContext(o)],
                               logger, lg, now)
        response == IF handled.completion = "return"
                    THEN Respond(format, StatusOf(errorObjs[id]), handled.result)
                    ELSE <<>>
    IN  [handled EXCEPT
            !.entry = "middleware",
            !.options = o,
            !.format = format,
            !.result = <<>>,
            !.response = response,
            !.order = CallOrder(handled.logged, response)]

\* The middleware is called, once, with the error built last.
CallMiddleware ==
    /\ ~formatCall.called
    /\ errorObjs # <<>>
    /\ \E o \in HandleOptionsSet, format \in {"unset", "json", "string"},
          logger \in BOOLEAN, now \in 1..MaxTime :
           \E lg \in LoggerOutcomes(logger) :
               formatCall' = Middleware(Len(errorObjs), o, format, logger, lg, now)
    /\ UNCHANGED <<retryVars, delayCall, errorObjs, handlerCalls, wrapCalls>>

NextExpress ==
    \/ ConstructError
    \/ ConstructAppError
    \/ CallMiddleware

SpecExpress == InitFormat /\ [][NextExpress]_vars

(* ----------------------------- asyncHandler ----------------------------- *)
\* What a route handler may reject with or throw.
Rejections == {ErrVal(1), StrVal("string error")}

\* The arguments Express calls a route handler with for request r.
RouteArgs(r) == <<[name |-> "req", of |-> r], [name |-> "res", of |-> r],
                  [name |-> "next", of |-> r]>>

\* What a call of fn does before it returns: an async function returns a
\* pending promise; a function that is not async may return a plain value
\* or throw.
FnReturns ==
    {[inner |-> "pending", value |-> Undefined]}
        \cup {[inner |-> "fulfilled", value |-> v] : v \in Results}
        \cup {[inner |-> "threw", value |-> e] : e \in Rejections}

\* How the promise fn returned settles: with a result, with a rejection, or,
\* when the route handler catches its own error e and calls next(e), with
\* undefined after that call.
FnSettlements ==
    {[inner |-> "fulfilled", value |-> v, next |-> <<>>] : v \in Results}
        \cup {[inner |-> "rejected", value |-> e, next |-> <<>>] : e \in Rejections}
        \cup {[inner |-> "fulfilled", value |-> Undefined, next |-> <<e>>] : e \in Rejections}

\* A slip for lines 510-512: the handler of catch returns the error.
OnRejectedReturns(error) == [outer |-> "fulfilled", value |-> error, next |-> <<>>]

\* The handler given to catch, lines 510-512: it throws the error again, so
\* the promise of catch rejects with it.
OnRejected(error) == [outer |-> "rejected", value |-> error, next |-> <<>>]

\* The wrapper asyncHandler(fn) returns is called for request r, lines
\* 509-510: fn is called with the same arguments; an exception of that call
\* leaves the wrapper before any promise is made.
CallWrapped(r) ==
    /\ handlerCalls[r].state = "idle"
    /\ \E f \in FnReturns :
           handlerCalls' =
               [handlerCalls EXCEPT ![r] =
                   [@ EXCEPT !.state = "called",
                             !.args = RouteArgs(r),
                             !.fnArgs = RouteArgs(r),
                             !.inner = f.inner,
                             !.innerValue = f.value,
                             !.outer = IF f.inner = "threw" THEN "none" ELSE "pending"]]
    /\ UNCHANGED <<retryVars, delayCall, formatVars, wrapCalls>>

\* The promise fn returned for request r settles.
FnSettles(r) ==
    /\ handlerCalls[r].inner = "pending"
    /\ \E f \in FnSettlements :
           handlerCalls' =
               [handlerCalls EXCEPT ![r] =
                   [@ EXCEPT !.inner = f.inner,
                             !.innerValue = f.value,
                             !.nextCalls = @ \o f.next]]
    /\ UNCHANGED <<retryVars, delayCall, formatVars, wrapCalls>>

\* The reaction of Promise.resolve(...).catch(...) runs for request r, lines
\* 510-512: a fulfilment passes through, a rejection goes to the handler.
CatchReaction(r) ==
    /\ handlerCalls[r].inner \in {"fulfilled", "rejected"}
    /\ handlerCalls[r].outer = "pending"
    /\ LET h == handlerCalls[r]
           settled == IF h.inner = "fulfilled"
                      THEN [outer |-> "fulfilled", value |-> h.innerValue, next |-> <<>>]
                      ELSE OnRejected(h.innerValue)
       IN  handlerCalls' =
               [handlerCalls EXCEPT ![r] =
                   [@ EXCEPT !.outer = settled.outer,
                             !.outerValue = settled.value,
                             !.nextCalls = @ \o settled.next]]
    /\ UNCHANGED <<retryVars, delayCall, formatVars, wrapCalls>>

NextAsync ==
    \E r \in Requests :
        \/ CallWrapped(r)
        \/ FnSettles(r)
        \/ CatchReaction(r)

\* Wrapped route handlers on their own, serving the requests concurrently.
InitAsync == InitFormat

SpecAsync == InitAsync /\ [][NextAsync]_vars

\* formatError is called a second time with the error and the options of the
\* call that returned, at an instant of its own.
CallFormatErrorAgain ==
    /\ formatCall.called
    /\ formatCall.entry = "formatError"
    /\ formatCall.completion = "return"
    /\ formatCall.again = <<>>
    /\ \E now \in 1..MaxTime :
           formatCall' =
               [formatCall EXCEPT
                   !.again = <<formatError(formatCall.error, formatCall.options, now)>>]
    /\ UNCHANGED <<retryVars, delayCall, errorObjs, handlerCalls, wrapCalls>>

NextFormatTwice ==
    \/ ConstructError
    \/ ConstructAppError
    \/ CallFormatError
    \/ CallFormatErrorAgain

\* formatError called twice on a chain of errors that is not changed between
\* the calls.
SpecFormatTwice == InitFormat /\ [][NextFormatTwice]_vars

NextWrap ==
    \/ ConstructError
    \/ ConstructAppError
    \/ WrapError

\* Errors built with new and with AppError.wrap, nothing formatted.
SpecWrap == InitFormat /\ [][NextWrap]_vars

NextFormat ==
    \/ ConstructError
    \/ ConstructAppError
    \/ AssignCause
    \/ CallFormatError

SpecFormat == InitFormat /\ [][NextFormat]_vars

(* ------------------------- reading the trace --------------------------- *)
Idx(c) == 1..Len(trace[c])

\* The events of call c among the first i whose kind is in S.
CountUpTo(c, i, S) == Cardinality({j \in 1..i : trace[c][j].ev \in S})
Count(c, S) == CountUpTo(c, Len(trace[c]), S)

Invocations(c) == Count(c, {"invoke"})
Failures(c) == Count(c, {"settleErr"})
Delays(c) == Count(c, {"sleep"})
PredicateCalls == {"retryIf:true", "retryIf:false", "retryIf:throw"}
CallbackCalls == {"onRetry:return", "onRetry:throw"}

\* The value the k-th failed invocation of call c rejected with.
RawFailure(c, k) ==
    LET i == CHOOSE j \in Idx(c) :
                 trace[c][j].ev = "settleErr" /\ CountUpTo(c, j, {"settleErr"}) = k
    IN  trace[c][i].val

\* Object id is the failure recorded for the thrown value raw: raw itself
\* when it is an Error, else an Error made for it, carrying its string form.
IsFailureOf(id, raw) ==
    IF IsError(raw)
    THEN id = raw.ref
    ELSE id > HookErrorId /\ id <= Len(heap) /\ heap[id].message = String(raw)

\* How a call ended.
Succeeded(c) == pc[c] = "resolved"
Exhausted(c) ==
    /\ pc[c] = "rejected"
    /\ trace[c][Len(trace[c]) - 1].ev = "settleErr"
Rejected(c) ==
    /\ pc[c] = "rejected"
    /\ trace[c][Len(trace[c]) - 1].ev = "retryIf:false"
Aborted(c) ==
    /\ pc[c] = "rejected"
    /\ trace[c][Len(trace[c]) - 1].ev \in {"retryIf:throw", "onRetry:throw"}

\* The `attempts` property of the value call c rejected with.
AttachedLog(c) == heap[outcome[c].ref].attempts
HasAttachedLog(c) == IsError(outcome[c]) /\ heap[outcome[c].ref].hasAttempts

(* ------------------------------ claims --------------------------------- *)
\* C1: with no retryIf and no throwing hook, a call whose operation fails on
\* every invocation rejects after exactly maxRetries+1 invocations, with a
\* failure whose attached attempts log has length maxRetries+1; no call ever
\* makes more than maxRetries+1 invocations.
C1_ExhaustAfterMaxRetriesPlusOne ==
    \A c \in active :
        /\ Invocations(c) <= Policy(c).maxRetries + 1
        /\ (pc[c] = "rejected" /\ ~Policy(c).retryIf /\ ~Aborted(c))
               => /\ Invocations(c) = Policy(c).maxRetries + 1
                  /\ Failures(c) = Policy(c).maxRetries + 1
                  /\ HasAttachedLog(c)
                  /\ Len(AttachedLog(c)) = Policy(c).maxRetries + 1

C1_Witness ==
    /\ pc["A"] = "rejected"
    /\ options["A"].maxRetries = 2
    /\ ~options["A"].retryIf
    /\ ~Aborted("A")
    /\ Invocations("A") = 3
    /\ Len(AttachedLog("A")) = 3

\* C2: a call that ends Exhausted or Rejected rejects with the failure of its
\* last attempt, and the attempts log attached to it holds the failure of
\* every attempt made, in order, the last entry being the rejected failure.
C2_LastFailureWithFullLog ==
    \A c \in active :
        (Exhausted(c) \/ Rejected(c))
            => /\ HasAttachedLog(c)
               /\ Invocations(c) = Failures(c)
               /\ Len(AttachedLog(c)) = Failures(c)
               /\ \A k \in 1..Failures(c) : IsFailureOf(AttachedLog(c)[k], RawFailure(c, k))
               /\ outcome[c].ref = AttachedLog(c)[Failures(c)]

C2_Witness ==
    /\ Rejected("A")
    /\ Failures("A") = 2
    /\ RawFailure("A", 1) = ErrVal(1)
    /\ RawFailure("A", 2) = ErrVal(2)
    /\ AttachedLog("A") = <<1, 2>>
    /\ outcome["A"] = ErrVal(2)

\* C3: when the first invocation succeeds, the call resolves with that value
\* and has done nothing else: one invocation, no hook call, no delay,
\* whatever the options.
C3_FirstSuccessReturnsAtOnce ==
    \A c \in active :
        (Len(trace[c]) >= 2 /\ trace[c][2].ev = "settleOk")
            => /\ pc[c] = "resolved"
               /\ outcome[c] = trace[c][2].val
               /\ trace[c] = <<Event("invoke", 1, Undefined),
                               Event("settleOk", 0, outcome[c]),
                               Event("resolve", 0, outcome[c])>>

C3_Witness ==
    /\ pc["A"] = "resolved"
    /\ Invocations("A") = 1
    /\ outcome["A"] = StrVal("ok")
    /\ options["A"].retryIf /\ options["A"].onRetry
    /\ options["A"].maxRetries = 2

\* C4: on a failure that is not the last attempt's a configured retryIf is
\* consulted, and when it returns false the call rejects at once with that
\* failure: no onRetry call, no delay, no further invocation; a first answer
\* of false means exactly one invocation.
C4_PredicateFalseStops ==
    \A c \in active : \A i \in Idx(c) :
        /\ (/\ trace[c][i].ev = "settleErr"
            /\ Policy(c).retryIf
            /\ CountUpTo(c, i, {"invoke"}) <= Policy(c).maxRetries)
               => /\ i < Len(trace[c])
                  /\ trace[c][i + 1].ev \in PredicateCalls
                  /\ IsFailureOf(trace[c][i + 1].val.ref, trace[c][i].val)
        /\ trace[c][i].ev = "retryIf:false"
               => /\ pc[c] = "rejected"
                  /\ Len(trace[c]) = i + 1
                  /\ trace[c][i + 1] = Event("reject", Failures(c), trace[c][i].val)
                  /\ outcome[c] = trace[c][i].val
                  /\ Invocations(c) = CountUpTo(c, i, {"invoke"})
                  /\ (i = 3 => Invocations(c) = 1)

C4_Witness ==
    /\ Rejected("A")
    /\ options["A"].maxRetries = 2
    /\ options["A"].onRetry
    /\ Invocations("A") = 1
    /\ Count("A", CallbackCalls) = 0
    /\ Delays("A") = 0

\* C5: onRetry is never called before the first invocation, and a call that
\* succeeds after N failures has called it exactly N times, the k-th time
\* with the failure of attempt k and the number k.
C5_OnRetryOncePerFailure ==
    \A c \in active :
        /\ \A i \in Idx(c) : trace[c][i].ev \in CallbackCalls
               => i > 1 /\ trace[c][1].ev = "invoke"
        /\ (Succeeded(c) /\ Policy(c).onRetry)
               => LET IsCallback(e) == e.ev \in CallbackCalls
                      calls == SelectSeq(trace[c], IsCallback)
                  IN  /\ Len(calls) = Failures(c)
                      /\ \A k \in 1..Len(calls) :
                             /\ calls[k].ev = "onRetry:return"
                             /\ calls[k].k = k
                             /\ IsFailureOf(calls[k].val.ref, RawFailure(c, k))
        /\ (~Policy(c).onRetry) => Count(c, CallbackCalls) = 0

C5_Witness ==
    /\ Succeeded("A")
    /\ options["A"].onRetry
    /\ Failures("A") = 2
    /\ Count("A", CallbackCalls) = 2
    /\ RawFailure("A", 1) = ErrVal(1)
    /\ RawFailure("A", 2) = StrVal("string error")

\* C6: the failure of attempt maxRetries+1 ends the call at once: retryIf is
\* not consulted, onRetry is not called, no delay is waited; with
\* maxRetries = 0 the operation is invoked once and nothing is retried.
C6_LastAttemptIsTerminal ==
    \A c \in active :
        /\ \A i \in Idx(c) :
               (/\ trace[c][i].ev = "settleErr"
                /\ CountUpTo(c, i, {"invoke"}) = Policy(c).maxRetries + 1)
                   => /\ pc[c] = "rejected"
                      /\ Len(trace[c]) = i + 1
                      /\ trace[c][i + 1].ev = "reject"
                      /\ IsFailureOf(outcome[c].ref, trace[c][i].val)
        /\ (Policy(c).maxRetries = 0 /\ pc[c] # "idle")
               => /\ Invocations(c) = 1
                  /\ Count(c, PredicateCalls \cup CallbackCalls \cup {"sleep"}) = 0

C6_Witness ==
    /\ Exhausted("A")
    /\ options["A"].maxRetries = 0
    /\ options["A"].retryIf /\ options["A"].onRetry
    /\ Invocations("A") = 1

\* C7: a retry step is strictly ordered: the failure of attempt k, then
\* retryIf on it (if configured), then onRetry with (failure, k) (if
\* configured), then the delay, then the timer, and only then attempt k+1.
C7_RetryStepOrder ==
    \A c \in active : \A i \in Idx(c) :
        LET q == trace[c]
            p == Policy(c)
            k == CountUpTo(c, i, {"invoke"})
            first == i - 1 - (IF p.retryIf THEN 1 ELSE 0) - (IF p.onRetry THEN 1 ELSE 0)
        IN  /\ q[i].ev = "sleep"
                => /\ first >= 2
                   /\ q[first].ev = "settleErr"
                   /\ q[first - 1] = Event("invoke", k, Undefined)
                   /\ p.retryIf => /\ q[first + 1].ev = "retryIf:true"
                                   /\ IsFailureOf(q[first + 1].val.ref, q[first].val)
                   /\ p.onRetry => /\ q[i - 1].ev = "onRetry:return"
                                   /\ q[i - 1].k = k
                                   /\ IsFailureOf(q[i - 1].val.ref, q[first].val)
                   /\ i = Len(q) => pc[c] = "sleeping"
                   /\ i < Len(q) => q[i + 1].ev = "wake"
                   /\ i + 1 < Len(q) => q[i + 2] = Event("invoke", k + 1, Undefined)
            /\ (q[i].ev = "invoke" /\ i > 1)
                => q[i - 1].ev = "wake" /\ q[i - 2].ev = "sleep"

C7_Witness ==
    /\ pc["A"] = "awaitFn"
    /\ options["A"].retryIf /\ options["A"].onRetry
    /\ Invocations("A") = 3
    /\ Count("A", {"retryIf:true"}) = 2
    /\ Count("A", {"onRetry:return"}) = 2
    /\ Count("A", {"wake"}) = 2

\* C8: a call has at most one invocation of the operation in flight, and
\* attempt k+1 is started only when attempts 1..k have all settled as failures.
C8_OneInvocationInFlight ==
    \A c \in active :
        /\ inFlight[c] \in {0, 1}
        /\ (inFlight[c] = 1) = (pc[c] = "awaitFn")
        /\ inFlight[c] = Invocations(c) - Failures(c) - Count(c, {"settleOk"})
        /\ \A i \in Idx(c) : trace[c][i].ev = "invoke"
               => CountUpTo(c, i, {"settleErr"}) = trace[c][i].k - 1

C8_Witness ==
    /\ pc["A"] = "awaitFn"
    /\ inFlight["A"] = 1
    /\ Invocations("A") = 3
    /\ Failures("A") = 2

\* C9: after two interleaved calls, the attempts log attached to the failure
\* each call rejected with holds exactly the failures that call observed.
C9_LogsAreNotShared ==
    \A c \in active :
        (Exhausted(c) \/ Rejected(c))
            => /\ Len(AttachedLog(c)) = Failures(c)
               /\ \A k \in 1..Len(AttachedLog(c)) :
                      k <= Failures(c) /\ IsFailureOf(AttachedLog(c)[k], RawFailure(c, k))

\* C10 as stated: when the last attempt rejects with a value that is not an
\* Error, withRetry rejects with that very value.
C10_RawValuePropagates ==
    \A c \in active :
        ((Exhausted(c) \/ Rejected(c)) /\ ~IsError(RawFailure(c, Failures(c))))
            => outcome[c] = RawFailure(c, Failures(c))

\* C10 as amended: when the last attempt rejects with a value that is not an
\* Error, withRetry rejects with a new Error whose message is the string form
\* of that value, the same object as the last entry of the attempts log.
C10_CoercedValuePropagates ==
    \A c \in active :
        ((Exhausted(c) \/ Rejected(c)) /\ ~IsError(RawFailure(c, Failures(c))))
            => /\ IsError(outcome[c])
               /\ outcome[c].ref > HookErrorId
               /\ heap[outcome[c].ref].message = String(RawFailure(c, Failures(c)))
               /\ heap[outcome[c].ref].message
                      = (IF RawFailure(c, Failures(c)).t = "string"
                         THEN RawFailure(c, Failures(c)).s
                         ELSE ToString(RawFailure(c, Failures(c)).n))
               /\ HasAttachedLog(c)
               /\ AttachedLog(c)[Len(AttachedLog(c))] = outcome[c].ref

C10_Witness ==
    /\ Exhausted("A")
    /\ Failures("A") = 2
    /\ RawFailure("A", 2) = StrVal("string error")
    /\ heap[outcome["A"].ref].message = "string error"

\* C11: when onRetry throws, the call rejects at once with what the hook
\* threw: no further invocation of the operation, no delay for that retry,
\* and no attempts log attached to the propagated exception.
C11_OnRetryThrowAborts ==
    \A c \in active : \A i \in Idx(c) :
        trace[c][i].ev = "onRetry:throw"
            => /\ pc[c] = "rejected"
               /\ Len(trace[c]) = i + 1
               /\ trace[c][i + 1] = Event("reject", 0, ErrVal(HookErrorId))
               /\ outcome[c] = ErrVal(HookErrorId)
               /\ ~heap[HookErrorId].hasAttempts
               /\ ~HasAttachedLog(c)
               /\ Invocations(c) = trace[c][i].k
               /\ Delays(c) = trace[c][i].k - 1

C11_Witness ==
    /\ Aborted("A")
    /\ trace["A"][Len(trace["A"]) - 1].ev = "onRetry:throw"
    /\ Invocations("A") = 2
    /\ Delays("A") = 1
    /\ Len(errors["A"]) = 2
    /\ outcome["A"] = ErrVal(HookErrorId)

\* The delays call c has set its timers to, in order.
Sleeps(c) ==
    LET IsSleep(e) == e.ev = "sleep"
        q == SelectSeq(trace[c], IsSleep)
    IN  [k \in 1..Len(q) |-> q[k].k]

\* C17: the wait before the k-th retry is the delay of attempt number k
\* (1-based): with jitter off the timer of retry k is set to
\* min(initialDelay * k, maxDelay) for 'linear'; a call with 'linear',
\* initialDelay 10, maxDelay >= 20 and jitter off whose operation fails twice
\* and then succeeds has waited 10 then 20, made 3 invocations and resolved
\* with the operation's value.
C17_KthWaitUsesAttemptK ==
    \A c \in active :
        LET p == Policy(c)
            w == Sleeps(c)
        IN  /\ (~p.jitter /\ p.backoff = "linear")
                => \A k \in 1..Len(w) :
                       w[k] = (IF p.initialDelay * k <= p.maxDelay
                               THEN p.initialDelay * k ELSE p.maxDelay)
            /\ (/\ ~p.jitter /\ p.backoff = "linear"
                /\ p.initialDelay = 10 /\ p.maxDelay >= 20
                /\ Succeeded(c) /\ Failures(c) = 2)
                => /\ w = <<10, 20>>
                   /\ Invocations(c) = 3
                   /\ outcome[c] = trace[c][Len(trace[c]) - 1].val
                   /\ trace[c][Len(trace[c]) - 1].ev = "settleOk"

C17_Witness ==
    /\ Succeeded("A")
    /\ options["A"].backoff = "linear"
    /\ options["A"].jitter = "off"
    /\ Failures("A") = 2
    /\ Sleeps("A") = <<10, 20>>
    /\ Invocations("A") = 3
    /\ outcome["A"] = StrVal("ok")

\* Call c has settled.
Settled(c) == pc[c] \in {"resolved", "rejected"}

\* The ways of ending among success, predicate rejection and exhaustion that
\* call c has ended in.
Endings(c) ==
    {x \in {"success", "rejection", "exhaustion"} :
        \/ x = "success" /\ Succeeded(c)
        \/ x = "rejection" /\ Rejected(c)
        \/ x = "exhaustion" /\ Exhausted(c)}

\* C12: a call whose operation settles every time and whose timers fire
\* eventually settles; if no hook threw it has then ended in exactly one of
\* success, predicate rejection and exhaustion; and at no time has it made
\* more than maxRetries+1 invocations or waited more than maxRetries delays.
C12_AlwaysSettles ==
    /\ <>(\A c \in active :
              /\ Settled(c)
              /\ ~Aborted(c) => Cardinality(Endings(c)) = 1)
    /\ [](\A c \in active :
              /\ Invocations(c) <= Policy(c).maxRetries + 1
              /\ Delays(c) <= Policy(c).maxRetries
              /\ Settled(c) => (~Aborted(c) => Cardinality(Endings(c)) = 1))

C12_Witness ==
    /\ Exhausted("A")
    /\ options["A"].maxRetries = 2
    /\ options["A"].retryIf /\ options["A"].onRetry
    /\ Invocations("A") = 3
    /\ Delays("A") = 2
    /\ Endings("A") = {"exhaustion"}

\* The objects met by walking the `.cause` chain of object id, id itself not
\* included; n bounds the walk.
RECURSIVE CauseChain(_, _)
CauseChain(id, n) ==
    IF n = 0 \/ heap[id].cause = 0
    THEN {}
    ELSE {heap[id].cause} \cup CauseChain(heap[id].cause, n - 1)

\* C18: after exhaustion the failures of the earlier attempts are reachable
\* from the rejected error both by walking its `.cause` chain and through its
\* `attempts` property.
C18_HistoryOnCauseChain ==
    \A c \in active :
        Exhausted(c)
            => /\ HasAttachedLog(c)
               /\ Len(AttachedLog(c)) = Failures(c)
               /\ \A k \in 1..(Failures(c) - 1) :
                      AttachedLog(c)[k] # outcome[c].ref
                          => AttachedLog(c)[k] \in CauseChain(outcome[c].ref, Len(heap))

\* The delay of the latest calculateDelay call before any jitter, restated
\* from the claims: the base delay of the strategy, capped at maxDelay.
ExpectedBase(d) ==
    CASE d.backoff = "exponential" -> d.initialDelay * 2^(d.attempt - 1)
      [] d.backoff = "linear" -> d.initialDelay * d.attempt
      [] OTHER -> d.initialDelay
ExpectedCapped(d) ==
    IF ExpectedBase(d) <= d.maxDelay THEN ExpectedBase(d) ELSE d.maxDelay

\* C13: with jitter off, calculateDelay for attempt n >= 1 returns
\* min(base(n), maxDelay), base(n) being initialDelay * 2^(n-1), initialDelay * n
\* or initialDelay for 'exponential', 'linear' or 'fixed'; so it never exceeds
\* maxDelay, and exponential with initialDelay 50000 and maxDelay 100 gives 100
\* for attempt 1.
C13_DelayIsCappedBase ==
    (/\ delayCall.attempt >= 1
     /\ ~delayCall.jitter
     /\ delayCall.backoff \in {"exponential", "linear", "fixed"})
        => /\ delayCall.delay = ExpectedCapped(delayCall)
           /\ delayCall.delay <= delayCall.maxDelay
           /\ (/\ delayCall.backoff = "exponential"
               /\ delayCall.initialDelay = 50000
               /\ delayCall.maxDelay = 100
               /\ delayCall.attempt = 1) => delayCall.delay = 100

C13_Witness ==
    /\ delayCall.attempt = 1
    /\ ~delayCall.jitter
    /\ delayCall.backoff = "exponential"
    /\ delayCall.initialDelay = 50000
    /\ delayCall.maxDelay = 100
    /\ delayCall.delay = 100

\* C15: with jitter on, the delay returned is the rounding of a value between
\* 0.75*d and 1.25*d, d being the capped delay, for every draw of the random
\* source; the least draw gives the rounding of 0.75*d.
C15_JitterWithinQuarter ==
    (delayCall.attempt >= 1 /\ delayCall.jitter)
        => LET d == ExpectedCapped(delayCall)
           IN  /\ 3 * d < 4 * delayCall.delay + 2
               /\ 4 * delayCall.delay - 2 <= 5 * d
               /\ delayCall.random = 0 => delayCall.delay = (3 * d + 2) \div 4

C15_Witness ==
    /\ delayCall.attempt = 3
    /\ delayCall.jitter
    /\ delayCall.backoff = "linear"
    /\ delayCall.initialDelay = 7
    /\ delayCall.maxDelay = 100
    /\ delayCall.random = RandDen - 1
    /\ delayCall.delay > 21

\* C16 as stated: a jittered delay exceeds maxDelay by at most 12.5% of
\* maxDelay.
C16_ExceedsCapByEighth ==
    delayCall.attempt >= 1 => 8 * delayCall.delay <= 9 * delayCall.maxDelay

\* C16 as amended: a jittered delay can exceed maxDelay, by less than 25% of
\* maxDelay before it is rounded, for every attempt number, strategy and draw.
C16_ExceedsCapByQuarter ==
    delayCall.attempt >= 1 => 4 * delayCall.delay - 2 <= 5 * delayCall.maxDelay

C16_Witness ==
    /\ delayCall.attempt >= 1
    /\ delayCall.jitter
    /\ delayCall.maxDelay = 100
    /\ 8 * delayCall.delay > 9 * delayCall.maxDelay
    /\ 4 * delayCall.delay <= 5 * delayCall.maxDelay

\* calculateDelay returns for an unrecognized strategy what it returns for
\* 'fixed', whatever the attempt number, the delays, the jitter and the draw.
UnrecognizedDelayIsFixedDelay ==
    \A p \in DelayPolicies : \A att \in 1..MaxAttemptNo : \A r \in DelayDraws(p.jitter) :
        p.backoff \notin {"exponential", "linear", "fixed"}
            => /\ calculateDelay(att, p, r)
                      = calculateDelay(att, [p EXCEPT !.backoff = "fixed"], r)
               /\ ~p.jitter
                      => calculateDelay(att, p, r)
                             = (IF p.initialDelay <= p.maxDelay
                                THEN p.initialDelay ELSE p.maxDelay)

\* C14: an unrecognized backoff value is never an error: calculateDelay gives
\* the delay of 'fixed' for every attempt number, and a call with such a value
\* retries as any other: it waits initialDelay (capped, jittered if jitter is
\* on) before each retry, and ends by success, by the failure of the
\* operation or by a throwing hook, never by an error of its own.
C14_UnrecognizedBackoffIsFixed ==
    /\ UnrecognizedDelayIsFixedDelay
    /\ \A c \in active :
           Policy(c).backoff \notin {"exponential", "linear", "fixed"}
               => LET p == Policy(c)
                      w == Sleeps(c)
                      d == IF p.initialDelay <= p.maxDelay THEN p.initialDelay ELSE p.maxDelay
                  IN  /\ \A k \in 1..Len(w) :
                             IF p.jitter
                             THEN 3 * d < 4 * w[k] + 2 /\ 4 * w[k] - 2 <= 5 * d
                             ELSE w[k] = d
                      /\ Succeeded(c)
                             => /\ Invocations(c) = Failures(c) + 1
                                /\ Len(w) = Failures(c)
                      /\ (pc[c] = "rejected" /\ ~Aborted(c))
                             => /\ Len(w) = Failures(c) - 1
                                /\ IsFailureOf(outcome[c].ref, RawFailure(c, Failures(c)))

C14_Witness ==
    /\ Succeeded("A")
    /\ options["A"].backoff = "bogus"
    /\ options["A"].jitter = "off"
    /\ Failures("A") = 2
    /\ Sleeps("A") = <<10, 10>>
    /\ Invocations("A") = 3

\* The call of formatError made: the error formatted, the snapshot returned
\* (top level first, then its cause, and so on).
Formatted == errorObjs[formatCall.error]
Snapshot == formatCall.errorDetails

\* The value of key k in the context the claims expect at the top level, 0
\* for a key that is not expected: the options' value if the options have the
\* key, else the value of an AppError's own context.
ExpectedContext(k) ==
    LET X == formatCall.options.context
        Y == Formatted.context
    IN  IF X.defined /\ X.map[k] # 0 THEN X.map[k]
        ELSE IF Formatted.kind = "AppError" /\ Y.defined THEN Y.map[k]
        ELSE 0

\* C19: the top-level context of formatError(error, {context: X}) is
\* {...Y, ...X} for an AppError with context Y, X winning on every key both
\* have, and X alone for any other error; when that context has no key the
\* snapshot has no `context` field.
C19_ContextIsMerged ==
    (formatCall.called /\ formatCall.completion = "return")
        => /\ Snapshot[1].hasContext = (\E k \in Keys : ExpectedContext(k) # 0)
           /\ \A k \in Keys : Snapshot[1].context[k] = ExpectedContext(k)

C19_Witness ==
    /\ formatCall.called
    /\ Formatted.kind = "AppError"
    /\ Formatted.context = SomeContext(ObjectOf(1, 1))
    /\ formatCall.options.context = SomeContext(ObjectOf(2, 0))
    /\ Snapshot[1].hasContext
    /\ Snapshot[1].context = ObjectOf(2, 1)

\* C20: in the snapshot formatError returns no cause level, at any depth, has
\* a `timestamp` field, whatever includeTimestamp the call was given.
C20_NoCauseTimestamp ==
    (formatCall.called /\ formatCall.completion = "return")
        => \A i \in 2..Len(Snapshot) :
               /\ ~Snapshot[i].hasTimestamp
               /\ Snapshot[i].timestamp = 0

C20_Witness ==
    /\ formatCall.called
    /\ formatCall.options.includeTimestamp = "on"
    /\ Len(Snapshot) = 3
    /\ Snapshot[1].hasTimestamp
    /\ Snapshot[1].timestamp = 2
    /\ ~Snapshot[3].hasTimestamp

\* The cause chain of the formatted error, read off the error objects: the
\* ids of the error itself, of its cause, of the cause of that, and so on, as
\* long as the cause is an Error; n bounds the walk.
RECURSIVE ChainFrom(_, _)
ChainFrom(id, n) ==
    IF n = 0 THEN <<>>
    ELSE <<id>> \o (IF errorObjs[id].cause.t = "error"
                    THEN ChainFrom(errorObjs[id].cause.ref, n - 1)
                    ELSE <<>>)

Chain == ChainFrom(formatCall.error, Len(errorObjs))

\* The error at depth i of the chain (1 = the formatted error itself).
ChainError(i) == errorObjs[Chain[i]]

\* formatError returned a snapshot.
Returned == formatCall.called /\ formatCall.completion = "return"

\* C21: the snapshot mirrors the cause chain: it has as many nested levels as
\* the chain has errors, and the level at depth i carries the message of the
\* error at depth i and, for an AppError, its code and statusCode; for a chain
\* of three, snapshot.cause.cause.message is the message of the root.
C21_SnapshotMirrorsChain ==
    Returned
        => /\ Len(Snapshot) = Len(Chain)
           /\ \A i \in 1..Len(Chain) :
                  /\ Snapshot[i].message = ChainError(i).message
                  /\ ChainError(i).kind = "AppError"
                         => /\ Snapshot[i].code = ChainError(i).code
                            /\ Snapshot[i].statusCode = ChainError(i).statusCode
           /\ Len(Chain) = 3 => Snapshot[3].message = "error 1"

C21_Witness ==
    /\ Returned
    /\ Chain = <<3, 2, 1>>
    /\ Len(Snapshot) = 3
    /\ ChainError(3).kind = "Error"
    /\ ChainError(2).kind = "AppError"
    /\ Snapshot[3].message = "error 1"
    /\ Snapshot[2].code = StrVal("NOT_FOUND")
    /\ Snapshot[2].statusCode = NumVal(404)

\* C22: at every depth of the snapshot `code` and `statusCode` are set if and
\* only if the error formatted there is an AppError, and the top level has a
\* `timestamp` if and only if includeTimestamp is true or left out.
C22_CodeIffAppError ==
    Returned
        => /\ \A i \in 1..Len(Snapshot) :
                  /\ Snapshot[i].hasCode = (ChainError(i).kind = "AppError")
                  /\ ChainError(i).kind # "AppError"
                         => /\ Snapshot[i].code = Undefined
                            /\ Snapshot[i].statusCode = Undefined
           /\ Snapshot[1].hasTimestamp
                  = (formatCall.options.includeTimestamp \in {"unset", "on"})
           /\ Snapshot[1].hasTimestamp => Snapshot[1].timestamp \in 1..MaxTime

C22_Witness ==
    /\ Returned
    /\ Len(Snapshot) = 2
    /\ ChainError(1).kind = "AppError" /\ Snapshot[1].hasCode
    /\ ChainError(2).kind = "Error" /\ ~Snapshot[2].hasCode
    /\ formatCall.options.includeTimestamp = "off"
    /\ ~Snapshot[1].hasTimestamp

\* C23: a snapshot at any depth has a `stack` if and only if the call was
\* given includeStack = true and the error at that depth has a stack trace;
\* when includeStack is left out no level has one.
C23_StackOnWholeChain ==
    Returned
        => \A i \in 1..Len(Snapshot) :
               Snapshot[i].hasStack
                   = (formatCall.options.includeStack = "on" /\ ChainError(i).hasStack)

C23_Witness ==
    /\ Returned
    /\ formatCall.options.includeStack = "on"
    /\ Len(Snapshot) = 3
    /\ Snapshot[1].hasStack
    /\ ~ChainError(2).hasStack /\ ~Snapshot[2].hasStack
    /\ Snapshot[3].hasStack

\* C24: the context of the options is not handed on to the causes: the
\* context of a cause snapshot is the own context of an AppError cause, it is
\* absent for any other cause and for an AppError cause whose context has no
\* key, and no key of options.context shows up in it.
C24_ContextNotForwarded ==
    Returned
        => \A i \in 2..Len(Snapshot) :
               LET E == ChainError(i)
                   own(k) == IF E.kind = "AppError" /\ E.context.defined
                             THEN E.context.map[k] ELSE 0
               IN  /\ Snapshot[i].hasContext = (\E k \in Keys : own(k) # 0)
                   /\ \A k \in Keys : Snapshot[i].context[k] = own(k)

C24_Witness ==
    /\ Returned
    /\ formatCall.options.context = SomeContext(ObjectOf(0, 2))
    /\ Len(Snapshot) = 3
    /\ Snapshot[1].context["b"] = 2
    /\ ChainError(2).kind = "AppError"
    /\ Snapshot[2].hasContext /\ Snapshot[2].context = ObjectOf(1, 0)
    /\ ChainError(3).kind = "Error" /\ ChainError(3).context.defined
    /\ ~Snapshot[3].hasContext

\* C25: formatError always returns a snapshot, whatever the error and the
\* cause chain reachable from it, and its recursion is as deep as the chain.
C25_FormatAlwaysReturns ==
    formatCall.called
        => /\ formatCall.completion = "return"
           /\ Len(Snapshot) = Len(Chain)

\* handleError was called and its formatError returned.
Handled ==
    /\ formatCall.called
    /\ formatCall.entry = "handleError"
    /\ formatCall.completion # "RangeError"

\* The top level of a snapshot agrees with the error and the options of the
\* call: the message, and a timestamp unless includeTimestamp is false.
IsSnapshotOfCall(snapshot) ==
    /\ Len(snapshot) = Len(Chain)
    /\ snapshot[1].message = Formatted.message
    /\ snapshot[1].hasTimestamp = (formatCall.options.includeTimestamp # "off")

\* C26: handleError formats the error and then, if a logger is supplied,
\* calls it exactly once, with the snapshot; when it returns, it returns that
\* snapshot, with or without a logger; without a logger nothing is called.
C26_FormatThenLogOnce ==
    Handled
        => /\ IsSnapshotOfCall(Snapshot)
           /\ formatCall.logger => /\ Len(formatCall.logged) = 1
                                   /\ formatCall.logged[1].arg = Snapshot
           /\ ~formatCall.logger => /\ formatCall.logged = <<>>
                                    /\ formatCall.completion = "return"
           /\ (\A i \in 1..Len(formatCall.logged) : formatCall.logged[i].did = "return")
                  => /\ formatCall.completion = "return"
                     /\ formatCall.result = Snapshot

C26_Witness ==
    /\ Handled
    /\ formatCall.logger
    /\ formatCall.completion = "return"
    /\ Len(Snapshot) = 2
    /\ formatCall.logged = <<LoggerCall(Snapshot, "return")>>
    /\ formatCall.result = Snapshot
    /\ Snapshot[1].context["a"] = 2

\* C27: when the logger throws, its exception leaves handleError: no
\* snapshot is returned, and the logger has been called exactly once.
C27_LoggerExceptionPropagates ==
    (Handled /\ \E i \in 1..Len(formatCall.logged) : formatCall.logged[i].did = "throw")
        => /\ formatCall.completion = "LoggerError"
           /\ formatCall.result = <<>>
           /\ Len(formatCall.logged) = 1
           /\ formatCall.logged[1].arg = Snapshot

C27_Witness ==
    /\ Handled
    /\ formatCall.logger
    /\ formatCall.logged = <<LoggerCall(Snapshot, "throw")>>
    /\ formatCall.completion = "LoggerError"
    /\ formatCall.result = <<>>

\* The middleware was called and has answered.
Responded ==
    /\ formatCall.called
    /\ formatCall.entry = "middleware"
    /\ formatCall.response # <<>>

\* C28: the status the middleware answers with is the statusCode of an
\* AppError when that is a non-zero number, and 500 for every other error: a
\* plain Error, and an AppError whose statusCode is 0 or not set.
C28_TransportStatus ==
    Responded
        => /\ formatCall.response[1].method = "status"
           /\ formatCall.response[1].arg
                  = (IF /\ Formatted.kind = "AppError"
                        /\ Formatted.statusCode.t = "number"
                        /\ Formatted.statusCode.n # 0
                     THEN Formatted.statusCode.n
                     ELSE 500)

C28_Witness ==
    /\ Responded
    /\ Formatted.kind = "AppError"
    /\ Formatted.statusCode = NumVal(0)
    /\ formatCall.response[1] = [method |-> "status", arg |-> 500]

\* C29: the snapshot of an AppError built with statusCode 0 reports the
\* statusCode 500, never 0.
C29_ZeroStatusFormattedAs500 ==
    Returned
        => \A i \in 1..Len(Snapshot) :
               ChainError(i).kind = "AppError"
                   => /\ Snapshot[i].statusCode # NumVal(0)
                      /\ ChainError(i).statusCode = NumVal(0)
                             => Snapshot[i].statusCode = NumVal(500)

\* The route handler of request r rejected: the promise it returned did.
HandlerRejected(r) == handlerCalls[r].inner = "rejected"

\* The promise the wrapper returned for request r has settled.
WrapperSettled(r) == handlerCalls[r].outer \in {"fulfilled", "rejected"}

\* C30: when the wrapped route handler rejects, next is called with the
\* error, once the wrapper's reaction to the rejection has run.
C30_RejectionForwardedToNext ==
    \A r \in Requests :
        (HandlerRejected(r) /\ WrapperSettled(r))
            => handlerCalls[r].nextCalls = <<handlerCalls[r].innerValue>>

\* C31: the wrapper calls fn with the arguments it was called with, and the
\* promise it returns settles as what fn returned does: fulfilled with the
\* same value, or rejected with the same value, an Error or not.
C31_WrapperIsTransparent ==
    \A r \in Requests :
        handlerCalls[r].state = "called"
            => /\ handlerCalls[r].fnArgs = handlerCalls[r].args
               /\ WrapperSettled(r)
                      => /\ handlerCalls[r].outer = handlerCalls[r].inner
                         /\ handlerCalls[r].outerValue = handlerCalls[r].innerValue

C31_Witness ==
    \E r \in Requests :
        /\ handlerCalls[r].inner = "rejected"
        /\ handlerCalls[r].outer = "rejected"
        /\ handlerCalls[r].outerValue = StrVal("string error")
        /\ \E q \in Requests :
               /\ handlerCalls[q].outer = "fulfilled"
               /\ handlerCalls[q].outerValue = StrVal("ok")

\* C32: every call of AppError.wrap returned a new AppError whose cause is
\* the original error itself, whose statusCode is 500 when none was given
\* and the given one otherwise, whose message, code and context are the
\* given ones and whose isOperational is true; so repeated wrapping makes a
\* chain in which each error's cause is the error wrapped before.
C32_WrapSetsCause ==
    \A i \in 1..Len(wrapCalls) :
        LET w == wrapCalls[i]
            e == errorObjs[w.returned]
        IN  /\ e.kind = "AppError"
            /\ w.returned > w.originalError.ref
            /\ e.cause = w.originalError
            /\ e.message = w.message
            /\ e.statusCode = (IF w.statusCode = Undefined THEN NumVal(500) ELSE w.statusCode)
            /\ e.code = w.code
            /\ e.context = w.context
            /\ e.isOperational = "true"

C32_Witness ==
    /\ Len(wrapCalls) = 2
    /\ wrapCalls[2].originalError = ErrVal(wrapCalls[1].returned)
    /\ wrapCalls[1].statusCode = Undefined
    /\ errorObjs[2].statusCode = NumVal(500)
    /\ errorObjs[3].cause = ErrVal(2)
    /\ errorObjs[2].cause = ErrVal(1)
    /\ errorObjs[1].kind = "Error"

\* The failure a call must record for the thrown value raw is object id: raw
\* itself when it is an Error, else an Error made for it in this run whose
\* message is the text of the string or the digits of the number.
IsErrorLikeOf(id, raw) ==
    IF raw.t = "error"
    THEN id = raw.ref
    ELSE /\ id > HookErrorId
         /\ id <= Len(heap)
         /\ heap[id].message = (IF raw.t = "string" THEN raw.s ELSE ToString(raw.n))

\* C33: the k-th entry of the attempt log is the k-th thrown value itself
\* when that is an Error, and otherwise an Error made for it whose message is
\* its string form; and every call of retryIf and of onRetry is handed the
\* entry of the failure it follows.
C33_FailuresAreErrorLike ==
    \A c \in active :
        /\ Len(errors[c]) = Failures(c)
        /\ \A k \in 1..Len(errors[c]) : IsErrorLikeOf(errors[c][k], RawFailure(c, k))
        /\ \A i \in Idx(c) :
               trace[c][i].ev \in PredicateCalls \cup CallbackCalls
                   => /\ CountUpTo(c, i, {"settleErr"}) >= 1
                      /\ trace[c][i].val
                             = ErrVal(errors[c][CountUpTo(c, i, {"settleErr"})])

C33_Witness ==
    /\ Failures("A") = 2
    /\ RawFailure("A", 1) = NumVal(42)
    /\ RawFailure("A", 2) = ErrVal(1)
    /\ heap[errors["A"][1]].message = "42"
    /\ errors["A"][2] = 1
    /\ \E i, j \in Idx("A") :
           /\ i < j
           /\ trace["A"][i] = Event("retryIf:true", 0, ErrVal(errors["A"][1]))
           /\ trace["A"][j].ev = "onRetry:return"
           /\ trace["A"][j].val = ErrVal(errors["A"][1])

\* Level i of a snapshot with its timestamp blanked when it is the top one.
WithoutTopTimestamp(snapshot, i) ==
    IF i = 1 THEN [snapshot[i] EXCEPT !.timestamp = 0] ELSE snapshot[i]

\* C34: two calls of formatError with the same error and the same options
\* return snapshots with the same number of levels, equal level by level in
\* every field but the timestamp of the top level.
C34_DeterministicButTimestamp ==
    (Returned /\ formatCall.again # <<>>)
        => /\ Len(formatCall.again[1]) = Len(Snapshot)
           /\ \A i \in 1..Len(Snapshot) :
                  WithoutTopTimestamp(formatCall.again[1], i)
                      = WithoutTopTimestamp(Snapshot, i)

C34_Witness ==
    /\ Returned
    /\ formatCall.again # <<>>
    /\ Len(Snapshot) = 3
    /\ Snapshot[1].hasTimestamp
    /\ formatCall.again[1][1].timestamp # Snapshot[1].timestamp
    /\ formatCall.again[1][3] = Snapshot[3]

\* C35: a level of the snapshot has a `cause` exactly when the error it was
\* made from has a cause that is an Error; an error whose cause is missing
\* (also when a falsy cause was given to the AppError constructor) or is a
\* string is formatted, without fail, into a snapshot with no `cause`.
C35_CauseIffErrorCause ==
    /\ Returned
           => \A i \in 1..Len(Snapshot) :
                  /\ i <= Len(Chain)
                  /\ (i < Len(Snapshot)) <=> (ChainError(i).cause.t = "error")
    /\ (formatCall.called /\ Formatted.cause.t # "error")
           => /\ formatCall.completion = "return"
              /\ Len(Snapshot) = 1

C35_Witness ==
    /\ Returned
    /\ Len(Snapshot) = 2
    /\ Formatted.kind = "Error"
    /\ Formatted.cause = ErrVal(1)
    /\ errorObjs[1].cause = StrVal("root cause")

\* The failed invocations of call c that were followed by another invocation.
FollowedFailures(c) ==
    Cardinality({j \in Idx(c) :
                    /\ trace[c][j].ev = "settleErr"
                    /\ \E i \in Idx(c) : i > j /\ trace[c][i].ev = "invoke"})

\* The delays call c has waited to their end.
DelaysWaited(c) == Count(c, {"wake"})

\* C36: at every point of a call with maxRetries >= 0, the attempt log has as
\* many entries as invocations have failed; at most maxRetries+1 invocations
\* have been made, and at least one once the call has settled; and the delays
\* waited to their end are as many as the failures that were followed by
\* another attempt, the timers set being one more only while the call sleeps.
C36_CountersAgree ==
    \A c \in active :
        Policy(c).maxRetries >= 0
            => /\ Len(errors[c]) = Failures(c)
               /\ Invocations(c) <= Policy(c).maxRetries + 1
               /\ Settled(c) => Invocations(c) >= 1
               /\ DelaysWaited(c) = FollowedFailures(c)
               /\ Delays(c) = DelaysWaited(c) + (IF pc[c] = "sleeping" THEN 1 ELSE 0)

C36_Witness ==
    /\ Exhausted("A")
    /\ Policy("A").maxRetries = 2
    /\ Invocations("A") = 3
    /\ Len(errors["A"]) = 3
    /\ DelaysWaited("A") = 2
    /\ FollowedFailures("A") = 2

\* C37: a call that succeeds after one or more failures resolves with the
\* value of the invocation that succeeded, which is its last one and the
\* only one that did; no Error object has an `attempts` property, the failed
\* attempts' errors are as they were thrown, and the value resolved with is
\* not the attempt log.
C37_SuccessLeavesErrorsUntouched ==
    \A c \in active :
        (Succeeded(c) /\ Failures(c) >= 1)
            => /\ Count(c, {"settleOk"}) = 1
               /\ Invocations(c) = Failures(c) + 1
               /\ trace[c][Len(trace[c]) - 1].ev = "settleOk"
               /\ outcome[c] = trace[c][Len(trace[c]) - 1].val
               /\ outcome[c] \in {StrVal("ok"), Undefined}
               /\ \A id \in 1..Len(heap) :
                      /\ ~heap[id].hasAttempts
                      /\ heap[id].attempts = <<>>
               /\ \A k \in 1..Len(errors[c]) :
                      IsError(RawFailure(c, k))
                          => heap[errors[c][k]] = InitHeap[RawFailure(c, k).ref]

C37_Witness ==
    /\ Succeeded("A")
    /\ Failures("A") = 2
    /\ Invocations("A") = 3
    /\ RawFailure("A", 1) = ErrVal(1)
    /\ RawFailure("A", 2) = StrVal("string error")
    /\ outcome["A"] = StrVal("ok")
    /\ ~heap[1].hasAttempts

\* C38: when retryIf throws, the call rejects at once with what the predicate
\* threw: the operation is not invoked again, onRetry is not called for that
\* failure, no timer is set for it, and the exception carries no attempts log.
C38_RetryIfThrowAborts ==
    \A c \in active : \A i \in Idx(c) :
        trace[c][i].ev = "retryIf:throw"
            => /\ pc[c] = "rejected"
               /\ trace[c][i - 1].ev = "settleErr"
               /\ Len(trace[c]) = i + 1
               /\ trace[c][i + 1] = Event("reject", 0, ErrVal(HookErrorId))
               /\ outcome[c] = ErrVal(HookErrorId)
               /\ outcome[c] # ErrVal(lastError[c])
               /\ ~HasAttachedLog(c)
               /\ Invocations(c) = Failures(c)
               /\ Count(c, CallbackCalls)
                      = (IF Policy(c).onRetry THEN Failures(c) - 1 ELSE 0)
               /\ Delays(c) = Failures(c) - 1

C38_Witness ==
    /\ Aborted("A")
    /\ trace["A"][Len(trace["A"]) - 1].ev = "retryIf:throw"
    /\ options["A"].onRetry
    /\ Failures("A") = 2
    /\ Count("A", CallbackCalls) = 1
    /\ Delays("A") = 1

\* C39: with jitter off, every computed delay is a non-negative integer, and
\* the delay computed for the next attempt number with the same policy is
\* never shorter than the one before, whatever the strategy.
C39_DelaysNeverShorten ==
    [][(~delayCall.jitter /\ delayCall.initialDelay >= 0 /\ delayCall.maxDelay >= 0)
           => /\ delayCall'.delay \in Nat
              /\ delayCall.attempt >= 1 => delayCall'.delay >= delayCall.delay]_vars

C39_Witness ==
    /\ ~delayCall.jitter
    /\ delayCall.backoff = "exponential"
    /\ delayCall.initialDelay = 7
    /\ delayCall.maxDelay = 25
    /\ delayCall.attempt = 4
    /\ delayCall.delay = 25

\* The middleware was called.
MiddlewareCalled == formatCall.called /\ formatCall.entry = "middleware"

\* C40: for the error it handles the middleware calls a configured logger
\* exactly once, with the snapshot, and none otherwise; unless the logger
\* threw it then sends one response, res.status(code) followed by
\* send(message) when format is 'string' and by json(snapshot) otherwise,
\* the logger's call coming before both; it never calls next; and when the
\* logger threw nothing was sent.
C40_LogThenRespondOnce ==
    MiddlewareCalled
        => /\ Len(formatCall.logged) = (IF formatCall.logger THEN 1 ELSE 0)
           /\ \A i \in 1..Len(formatCall.logged) :
                  formatCall.logged[i].arg = Snapshot
           /\ formatCall.nextCalls = <<>>
           /\ IF \E i \in 1..Len(formatCall.logged) : formatCall.logged[i].did = "throw"
              THEN /\ formatCall.response = <<>>
                   /\ formatCall.order = <<"logger">>
                   /\ formatCall.completion # "return"
              ELSE /\ Len(formatCall.response) = 2
                   /\ formatCall.response[1].method = "status"
                   /\ formatCall.response[2]
                          = (IF formatCall.format = "string"
                             THEN [method |-> "send", arg |-> Formatted.message]
                             ELSE [method |-> "json", arg |-> Snapshot])
                   /\ formatCall.order
                          = (IF formatCall.logger THEN <<"logger">> ELSE <<>>)
                                \o <<"status",
                                     IF formatCall.format = "string" THEN "send" ELSE "json">>

C40_Witness ==
    /\ MiddlewareCalled
    /\ formatCall.logger
    /\ formatCall.format = "string"
    /\ formatCall.order = <<"logger", "status", "send">>
    /\ formatCall.response[2].arg = "error 2"
    /\ Len(Snapshot) = 2

====
